---- MODULE Spec2Model ----
(***************************************************************************)
(* State-machine model of the HCP resting-state pipeline:                  *)
(*   - hcp_batch_resample_py.py : HCPRestResampler (per-file resample      *)
(*     task, subject worker, batch scheduler over a process pool)          *)
(*   - hcp_merge_hemispheres.py : HCPBilateralProcessor (load, merge,      *)
(*     validate, persist)                                                  *)
(* Three specifications share the variables:                               *)
(*   SpecTask  - one process_cifti_file call after another on one output   *)
(*               directory, step by step                                   *)
(*   Spec      - HCPRestResampler.run with its pool of subject workers     *)
(*   SpecMerge - HCPBilateralProcessor.process_subject on one subject      *)
(***************************************************************************)
EXTENDS Integers, Sequences, FiniteSets, TLC

VARIABLES
    task,        \* the process_cifti_file call in progress (SpecTask)
    taskStart,   \* the output directory as it was when that call started
    ncalls,      \* calls of process_cifti_file made so far (SpecTask)
    cpu_count,   \* multiprocessing.cpu_count()
    wb_command,  \* TRUE iff `wb_command -version` runs and exits 0
    atlas_missing, \* the sphere/area reference files that do not exist
    input_dir,   \* entries of INPUT_DIR: plain file, or directory with REST files
    outdir,      \* OUTPUT_DIR/<subject>: the four task files of every REST file
    runPc,       \* control point of HCPRestResampler.run
    checked,     \* outcome of check_requirements, "no" before it ran
    discovered,  \* TRUE once find_subjects has run
    subjects,    \* the list find_subjects returned
    pool,        \* TRUE once the ProcessPoolExecutor exists
    worker,      \* per subject: the future and the process_subject call behind it
    psummary,    \* per subject: processing_summary.txt, <<>> while not written
    collected,   \* futures as_completed has yielded
    successful_subjects,
    failed_subjects,
    summaries,   \* batch_summary_*.txt files written, oldest first
    tool_runs,   \* separate/resample runs of wb_command made by the workers
    gifti_files, \* merge stage: the *.func.gii files of input_dir/<subject>, by key
    save_formats, \* merge stage: the save_formats argument of process_subject
    out_exists,  \* merge stage: TRUE iff output_dir/<subject> is a directory
    out_content, \* merge stage: the files of output_dir/<subject>, with what they hold
    mruns,       \* merge stage: process_subject calls begun; the clock of merge_date
    save_errors, \* merge stage: records whose GIFTI save logged an error in this call
    mpc,         \* merge stage: control point of process_subject
    subject_data, \* merge stage: what load_subject_data returned
    merged_data, \* merge stage: what merge_hemispheres returned
    validation_results, \* merge stage: what validate_merged_data computed
    mret,        \* merge stage: what process_subject returned
    file_name,   \* parse_filename: the argument, as the substrings it holds
    parsed       \* parse_filename: what it returned, "not_called" before

taskVars == <<task, taskStart, ncalls>>
batchVars == <<cpu_count, wb_command, atlas_missing, input_dir, outdir, runPc,
               checked, discovered, subjects, pool, worker, psummary, collected,
               successful_subjects, failed_subjects, summaries, tool_runs>>
mergeVars == <<gifti_files, save_formats, out_exists, out_content, mruns,
               save_errors, mpc, subject_data, merged_data, validation_results, mret>>

\* The names of the files of output_dir/<subject>.
out_files == DOMAIN out_content
parseVars == <<file_name, parsed>>
vars == <<taskVars, batchVars, mergeVars, parseVars>>

(***************************************************************************)
(* Bounds                                                                  *)
(***************************************************************************)
\* process_cifti_file calls made on one directory
MaxCalls == 2
\* entries of INPUT_DIR
MaxEntries == 2
\* REST files under INPUT_DIR, all subjects together
MaxRestFiles == 2
\* largest machine considered
MaxCores == 4
\* reference files that may be missing at once
MaxMissing == 1
\* *.func.gii files in one subject directory
MaxPresent == 3
\* timepoints of a loaded file: MaxT or MaxT - 1
MaxT == 2
\* vertices of a hemisphere: MaxV or MaxV - 1
MaxV == 2

(***************************************************************************)
(* Per-file resample task: HCPRestResampler.process_cifti_file             *)
(***************************************************************************)
\* The four paths of one task (lines 114-119).
temp_left == "temp_left"
temp_right == "temp_right"
output_left == "output_left"
output_right == "output_right"

TaskFiles == {temp_left, temp_right, output_left, output_right}

\* What a path holds: nothing, a file some writer did not finish, or a
\* finished file.  Path.exists() is true of the last two.
FileStates == {"absent", "partial", "complete"}

Exists(d, f) == d[f] # "absent"

Dirs == [TaskFiles -> FileStates]

\* Path.unlink(missing_ok=True) on each path of fs.
Unlink(d, fs) == [f \in TaskFiles |-> IF f \in fs THEN "absent" ELSE d[f]]

\* The files fs are (over)written and left in state st.
WriteFiles(d, fs, st) == [f \in TaskFiles |-> IF f \in fs THEN st ELSE d[f]]

\* One run of wb_command through subprocess.run(check=True): exit status 0
\* leaves every target complete; a nonzero status (CalledProcessError) may
\* have left any of its targets half-written; the process may also fail to
\* start (OSError), which writes nothing.
ToolOutcomes(targets) ==
    {[exit |-> "ok", wrote |-> targets]}
    \cup {[exit |-> "nonzero", wrote |-> w] : w \in SUBSET targets}
    \cup {[exit |-> "oserror", wrote |-> {}]}

NoResult == <<>>
AlreadyDone == <<TRUE, "already_exists">>   \* (True, "已存在")
Success == <<TRUE, "success">>              \* (True, "成功")
Failed == <<FALSE, "error">>                \* (False, f"错误: {str(e)}")

\* A skip test that wants both outputs finished.
AlreadyProcessedComplete(d) ==
    d[output_left] = "complete" /\ d[output_right] = "complete"

\* line 122: the skip test
AlreadyProcessedMut(d) == Exists(d, output_left) /\ Exists(d, temp_right)
AlreadyProcessed(d) == Exists(d, output_left) /\ Exists(d, output_right)

\* An except branch that unlinks the intermediate files only.
CleanupOnErrorTemps == {temp_left, temp_right}

\* line 170: what the except branch unlinks
CleanupOnErrorMut == {temp_left, temp_right, output_right}
CleanupOnError == {temp_left, temp_right, output_left, output_right}

\* lines 163-164: what the success path unlinks
CleanupOnSuccess == {temp_left, temp_right}

\* What the tool wrote on its standard error before a nonzero exit;
\* capture_output=True keeps it in the exception's stderr attribute.
StderrText == "stderr_of_tool"

\* The CalledProcessError subprocess.run(check=True) raises for the command
\* `name`, and the value of `e` while none has been caught.
CalledProcessError(name) ==
    [cmd |-> name, returncode |-> "nonzero", stderr |-> StderrText]
NoError == [cmd |-> "", returncode |-> "", stderr |-> ""]

\* str(e) at line 172, as the set of the texts it holds:
\* "Command '<cmd>' returned non-zero exit status <returncode>."
StrOfError(e) == {"Command", e.cmd, "returned non-zero exit status", e.returncode}

\* The texts in the message of a result: line 172 for Failed.
MessageTexts(result, e) ==
    IF result[1] THEN {result[2]} ELSE {result[2]} \cup StrOfError(e)

NewTask(d) == [pc |-> "check", disk |-> d, calls |-> <<>>, result |-> NoResult,
               caught |-> NoError]

\* A try block that goes on to the next command after a nonzero exit.
InvokeToolGoOn(t, name, o, next) ==
    LET logged == Append(t.calls, <<name, o.exit>>) IN
    CASE o.exit = "ok" ->
            [t EXCEPT !.disk = WriteFiles(t.disk, o.wrote, "complete"),
                      !.calls = logged, !.pc = next]
      [] o.exit = "nonzero" ->
            [t EXCEPT !.disk = WriteFiles(t.disk, o.wrote, "partial"),
                      !.calls = logged, !.pc = next,
                      !.caught = CalledProcessError(name)]
      [] OTHER ->
            [t EXCEPT !.calls = logged, !.pc = "raised"]

\* subprocess.run(cmd, check=True, capture_output=True) inside the try block.
InvokeTool(t, name, o, next) ==
    LET logged == Append(t.calls, <<name, o.exit>>) IN
    CASE o.exit = "ok" ->
            [t EXCEPT !.disk = WriteFiles(t.disk, o.wrote, "complete"),
                      !.calls = logged, !.pc = next]
      [] o.exit = "nonzero" ->
            [t EXCEPT !.disk = WriteFiles(t.disk, o.wrote, "partial"),
                      !.calls = logged, !.pc = "except",
                      !.caught = CalledProcessError(name)]
      [] OTHER ->
            [t EXCEPT !.calls = logged, !.pc = "raised"]

\* The targets of the tool run the task is about to make.
Targets(pc) ==
    CASE pc = "separate" -> {temp_left, temp_right}
      [] pc = "resample_left" -> {output_left}
      [] pc = "resample_right" -> {output_right}
      [] OTHER -> {}

\* One step of process_cifti_file from control point t.pc.
TaskStep(t, o) ==
    CASE t.pc = "check" ->
            IF AlreadyProcessed(t.disk)
            THEN [t EXCEPT !.pc = "returned", !.result = AlreadyDone]
            ELSE [t EXCEPT !.pc = "separate"]
      [] t.pc = "separate" -> InvokeTool(t, "separate", o, "resample_left")
      [] t.pc = "resample_left" -> InvokeTool(t, "resample_left", o, "resample_right")
      [] t.pc = "resample_right" -> InvokeTool(t, "resample_right", o, "cleanup")
      [] t.pc = "cleanup" ->
            [t EXCEPT !.disk = Unlink(t.disk, CleanupOnSuccess),
                      !.pc = "returned", !.result = Success]
      [] t.pc = "except" ->
            [t EXCEPT !.disk = Unlink(t.disk, CleanupOnError),
                      !.pc = "returned", !.result = Failed]
      [] OTHER -> t

TaskEnded(t) == t.pc \in {"returned", "raised"}

IdleTask(d) == [pc |-> "idle", disk |-> d, calls |-> <<>>, result |-> NoResult,
                caught |-> NoError]

(***************************************************************************)
(* process_cifti_file run from its first line to its return or raise, the  *)
(* three tool runs ending as os[1], os[2], os[3] say (if they are made).   *)
(***************************************************************************)
RECURSIVE RunFrom(_, _, _)
RunFrom(t, os, i) ==
    IF TaskEnded(t) THEN t
    ELSE IF Targets(t.pc) # {}
         THEN RunFrom(TaskStep(t, os[i]), os, i + 1)
         ELSE RunFrom(TaskStep(t, os[1]), os, i)

RunTask(d, os) == RunFrom(NewTask(d), os, 1)

\* The ways the three tool runs of one call can end; a run that is never
\* made, because an earlier one did not exit 0, has no outcome to draw.
NotRun == [exit |-> "ok", wrote |-> {}]
Ok(pc) == [exit |-> "ok", wrote |-> Targets(pc)]
NotOk(pc) == ToolOutcomes(Targets(pc)) \ {Ok(pc)}

TaskOutcomes ==
    {<<a, NotRun, NotRun>> : a \in NotOk("separate")}
    \cup {<<Ok("separate"), b, NotRun>> : b \in NotOk("resample_left")}
    \cup {<<Ok("separate"), Ok("resample_left"), c>> :
                c \in ToolOutcomes(Targets("resample_right"))}

(***************************************************************************)
(* Merge stage: HCPBilateralProcessor                                      *)
(***************************************************************************)
None == "None"      \* the None parse_filename returns
NoData == <<>>       \* the None a loader returns in place of an array or a dict

Range(q) == {q[i] : i \in DOMAIN q}

\* parse_filename's table (lines 82-91), in the order the dict is walked.
AcqKeys == <<"REST1_LR_L", "REST1_LR_R", "REST1_RL_L", "REST1_RL_R",
             "REST2_LR_L", "REST2_LR_R", "REST2_RL_L", "REST2_RL_R">>

patterns ==
    [k \in Range(AcqKeys) |->
        CASE k = "REST1_LR_L" -> {"REST1", "LR", ".L."}
          [] k = "REST1_LR_R" -> {"REST1", "LR", ".R."}
          [] k = "REST1_RL_L" -> {"REST1", "RL", ".L."}
          [] k = "REST1_RL_R" -> {"REST1", "RL", ".R."}
          [] k = "REST2_LR_L" -> {"REST2", "LR", ".L."}
          [] k = "REST2_LR_R" -> {"REST2", "LR", ".R."}
          [] k = "REST2_RL_L" -> {"REST2", "RL", ".L."}
          [] OTHER -> {"REST2", "RL", ".R."}]

\* parse_filename (lines 79-96).  A file name is the set of the table's
\* substrings that occur in it; the first pattern all of whose substrings
\* occur gives the key.
RECURSIVE FirstMatch(_, _)
FirstMatch(filename, i) ==
    IF i > Len(AcqKeys) THEN None
    ELSE IF patterns[AcqKeys[i]] \subseteq filename THEN AcqKeys[i]
    ELSE FirstMatch(filename, i + 1)

parse_filename(filename) == FirstMatch(filename, 1)

\* The substrings the table asks for, and the file names told apart by them.
Substrings == UNION {patterns[k] : k \in Range(AcqKeys)}
FileNames == SUBSET Substrings

InitParseIdle ==
    /\ file_name = {}
    /\ parsed = "not_called"

KeyIndex(k) == CHOOSE i \in DOMAIN AcqKeys : AcqKeys[i] = k

\* float values that are no finite number: numpy's nan, and inf as a value
\* above every finite one (np.isnan, np.isinf, lines 293-294).
NaN == 9999999
Inf == 1000000
IsNaN(v) == v = NaN
IsInf(v) == v = Inf \/ v = -Inf

\* Python's < on floats: every comparison with nan is False.
Lt(a, b) == ~IsNaN(a) /\ ~IsNaN(b) /\ a < b

\* What a file may hold (its fill): "index", a value that tells the file, the
\* row and the column apart; "flat", 0 everywhere; and, in the first cell of
\* a left-hemisphere file only, one nan, one inf or one 1000 among "index"
\* values.
Fills == {"index", "flat", "nan", "inf", "big"}
Odd(f, i, j) == i = 1 /\ j = 1 /\ ".L." \in f.filename
Cell(f, i, j) ==
    CASE f.fill = "flat" -> 0
      [] f.fill = "nan" /\ Odd(f, i, j) -> NaN
      [] f.fill = "inf" /\ Odd(f, i, j) -> Inf
      [] f.fill = "big" /\ Odd(f, i, j) -> 1000
      [] OTHER -> KeyIndex(f.key) * 100 + i * 10 + j

\* load_gifti_timeseries (lines 98-119): one row per darray.
load_gifti_timeseries(f) ==
    IF f.T = 0 THEN NoData
    ELSE [i \in 1..f.T |-> [j \in 1..f.V |-> Cell(f, i, j)]]

Put(fn, k, v) == [x \in DOMAIN fn \cup {k} |-> IF x = k THEN v ELSE fn[x]]

EmptyDict == <<>>

\* A loop that gives up at the first file that cannot be read.
RECURSIVE LoadFilesStop(_, _)
LoadFilesStop(q, data) ==
    IF q = <<>> THEN data
    ELSE LET f == Head(q)
             key == parse_filename(f.filename)
             ts == load_gifti_timeseries(f)
         IN  IF ts = NoData THEN data
             ELSE LoadFilesStop(Tail(q),
                    IF key # None
                    THEN Put(data, key, [timeseries |-> ts, filename |-> f.filename,
                                         n_timepoints |-> Len(ts),
                                         n_vertices |-> Len(ts[1])])
                    ELSE data)

\* The loop of load_subject_data (lines 140-151) over the files in glob order.
RECURSIVE LoadFiles(_, _)
LoadFiles(q, data) ==
    IF q = <<>> THEN data
    ELSE LET f == Head(q)
             key == parse_filename(f.filename)
             ts == load_gifti_timeseries(f)
         IN  LoadFiles(Tail(q),
                IF key # None /\ ts # NoData
                THEN Put(data, key, [timeseries |-> ts, filename |-> f.filename,
                                     n_timepoints |-> Len(ts),
                                     n_vertices |-> Len(ts[1])])
                ELSE data)

\* load_subject_data (lines 121-158)
load_subject_data(q) ==
    IF q = <<>> THEN NoData
    ELSE LET data == LoadFiles(q, EmptyDict)
         IN  IF data = EmptyDict THEN NoData ELSE data

\* merge_pairs (lines 165-170)
merge_pairs == <<
    <<"REST1_LR_L", "REST1_LR_R", "REST1_LR_bilateral">>,
    <<"REST1_RL_L", "REST1_RL_R", "REST1_RL_bilateral">>,
    <<"REST2_LR_L", "REST2_LR_R", "REST2_LR_bilateral">>,
    <<"REST2_RL_L", "REST2_RL_R", "REST2_RL_bilateral">> >>

Min2(a, b) == IF a < b THEN a ELSE b

\* ts[:n, :] (lines 184-185)
LastRows(ts, n) == SubSeq(ts, Len(ts) - n + 1, Len(ts))
FirstRows(ts, n) == SubSeq(ts, 1, n)

\* np.concatenate([left_ts, right_ts], axis=1) (line 189)
ConcatenateRightFirst(left_ts, right_ts) ==
    [i \in 1..Len(left_ts) |-> right_ts[i] \o left_ts[i]]
Concatenate(left_ts, right_ts) ==
    [i \in 1..Len(left_ts) |-> left_ts[i] \o right_ts[i]]

\* The body of the loop of merge_hemispheres for a pair with both keys
\* present (lines 174-200).
MergePair(left_data, right_data, merged_key) ==
    LET mismatch == Len(left_data.timeseries) # Len(right_data.timeseries)
        min_timepoints == Min2(Len(left_data.timeseries), Len(right_data.timeseries))
        left_ts == IF mismatch THEN FirstRows(left_data.timeseries, min_timepoints)
                   ELSE left_data.timeseries
        right_ts == IF mismatch THEN FirstRows(right_data.timeseries, min_timepoints)
                    ELSE right_data.timeseries
        merged_timeseries == Concatenate(left_ts, right_ts)
    IN  [timeseries |-> merged_timeseries,
         filename |-> merged_key,
         n_timepoints |-> Len(merged_timeseries),
         n_vertices |-> Len(merged_timeseries[1]),
         n_vertices_left |-> Len(left_ts[1]),
         n_vertices_right |-> Len(right_ts[1]),
         left_source |-> left_data.filename,
         right_source |-> right_data.filename]

\* line 173: the test that lets a pair be merged
BothPresent(sd, left_key, right_key) ==
    left_key \in DOMAIN sd /\ right_key \in DOMAIN sd

\* merge_hemispheres (lines 160-215)
RECURSIVE MergeFrom(_, _, _)
MergeFrom(sd, i, md) ==
    IF i > Len(merge_pairs) THEN md
    ELSE LET p == merge_pairs[i]
         IN  MergeFrom(sd, i + 1,
                IF BothPresent(sd, p[1], p[2])
                THEN Put(md, p[3], MergePair(sd[p[1]], sd[p[2]], p[3]))
                ELSE md)

merge_hemispheres(sd) == MergeFrom(sd, 1, EmptyDict)

Cells(ts) == {ts[i][j] : i \in DOMAIN ts, j \in 1..Len(ts[1])}
\* ndarray.min and ndarray.max (line 301): nan as soon as one cell is nan.
ArrayMin(ts) == IF NaN \in Cells(ts) THEN NaN
                ELSE CHOOSE v \in Cells(ts) : \A w \in Cells(ts) : v <= w
ArrayMax(ts) == IF NaN \in Cells(ts) THEN NaN
                ELSE CHOOSE v \in Cells(ts) : \A w \in Cells(ts) : w <= v

\* The checks validate_merged_data makes on one record (lines 291-302).
Checks(data) ==
    LET ts == data.timeseries
        nrows == Len(ts)
        ncols == Len(ts[1])
    IN  [shape_valid |-> TRUE,
         no_nan |-> ~(\E v \in Cells(ts) : IsNaN(v)),
         no_inf |-> ~(\E v \in Cells(ts) : IsInf(v)),
         vertices_match |-> ncols = data.n_vertices_left + data.n_vertices_right,
         timepoints_positive |-> nrows > 0,
         vertices_positive |-> ncols > 0,
         reasonable_range |-> Lt(-1000, ArrayMin(ts))
                                /\ Lt(ArrayMin(ts), ArrayMax(ts))
                                /\ Lt(ArrayMax(ts), 1000)]

CheckNames == {"shape_valid", "no_nan", "no_inf", "vertices_match",
               "timepoints_positive", "vertices_positive", "reasonable_range"}

\* validate_merged_data, lines 284-324: validation_results
Validate(md) ==
    [k \in DOMAIN md |->
        [checks |-> Checks(md[k]),
         shape |-> <<Len(md[k].timeseries), Len(md[k].timeseries[1])>>,
         data_range |-> <<ArrayMin(md[k].timeseries), ArrayMax(md[k].timeseries)>>]]

\* save_merged_data, lines 222-248: the files written for the records of md
SavedFiles(md, formats) ==
    UNION {
        (IF "numpy" \in formats THEN {<<k, "npy">>} ELSE {})
        \cup (IF "gifti" \in formats THEN {<<k, "func.gii">>} ELSE {})
        \cup {<<k, "metadata.json">>} : k \in DOMAIN md}

ValidationFile == <<"validation_results", "json">>

\* A writer that leaves a file that is already there as it is.
WriteFileKeep(content, file, data) ==
    IF file \in DOMAIN content THEN content ELSE Put(content, file, data)

\* open(file, 'w'), np.save, nib.save: the file is created or replaced.
WriteFile(content, file, data) == Put(content, file, data)

\* A loop body that a failed GIFTI save leaves before the metadata.
SaveRecordRaise(content, k, rec, formats, failing, now) ==
    LET ts == rec.timeseries
        c1 == IF "numpy" \in formats
              THEN WriteFile(content, <<k, "npy">>, ts) ELSE content
        c2 == IF "gifti" \in formats /\ k \notin failing
              THEN WriteFile(c1, <<k, "func.gii">>, ts) ELSE c1
    IN  IF "gifti" \in formats /\ k \in failing THEN c1
        ELSE WriteFile(c2, <<k, "metadata.json">>,
                       [merge_date |-> now, data_shape |-> <<Len(ts), Len(ts[1])>>])

\* The body of the loop of save_merged_data for one record (lines 222-248).
\* save_as_gifti (lines 250-278) writes the file, or logs the error and
\* returns, for the records of `failing`.
SaveRecord(content, k, rec, formats, failing, now) ==
    LET ts == rec.timeseries
        c1 == IF "numpy" \in formats
              THEN WriteFile(content, <<k, "npy">>, ts) ELSE content
        c2 == IF "gifti" \in formats /\ k \notin failing
              THEN WriteFile(c1, <<k, "func.gii">>, ts) ELSE c1
    IN  WriteFile(c2, <<k, "metadata.json">>,
                  [merge_date |-> now, data_shape |-> <<Len(ts), Len(ts[1])>>])

\* save_merged_data (lines 217-248), the records taken in dict order.
RECURSIVE SaveFrom(_, _, _, _, _, _)
SaveFrom(i, content, md, formats, failing, now) ==
    IF i > Len(merge_pairs) THEN content
    ELSE LET k == merge_pairs[i][3]
         IN  SaveFrom(i + 1,
                      IF k \in DOMAIN md
                      THEN SaveRecord(content, k, md[k], formats, failing, now)
                      ELSE content,
                      md, formats, failing, now)

save_merged_data(content, md, formats, failing, now) ==
    SaveFrom(1, content, md, formats, failing, now)

\* The sets of records whose GIFTI save may fail in one call: none, or one.
GiftiFailures(md, formats) ==
    {{}} \cup (IF "gifti" \in formats THEN {{k} : k \in DOMAIN md} ELSE {})

InitMergeIdle ==
    /\ gifti_files = <<>>
    /\ save_formats = {"numpy"}
    /\ out_exists = FALSE
    /\ out_content = <<>>
    /\ mruns = 0
    /\ save_errors = {}
    /\ mpc = "idle"
    /\ subject_data = NoData
    /\ merged_data = EmptyDict
    /\ validation_results = EmptyDict
    /\ mret = <<>>

(***************************************************************************)
(* Batch scheduler and subject worker: HCPRestResampler.run,               *)
(* check_requirements, find_subjects, process_subject,                     *)
(* generate_summary_report                                                 *)
(***************************************************************************)
\* Names of the entries of INPUT_DIR; numbers, so that sorted() has an order.
Entries == 1..MaxEntries

\* SPHERE_FILES and AREA_FILES (lines 25-37)
RefFiles == {"sphere_fs_LR_32k_L", "sphere_fs_LR_32k_R", "sphere_fsavg4_L",
             "sphere_fsavg4_R", "area_fs_LR_32k_L", "area_fs_LR_32k_R",
             "area_fsavg4_L", "area_fsavg4_R"}

\* CONFIG['PARALLEL_JOBS'] (line 21), the default of --jobs
PARALLEL_JOBS == cpu_count \div 2

\* An output directory no run has touched, and one a finished run left.
Fresh == [f \in TaskFiles |-> "absent"]
Done == [f \in TaskFiles |->
            IF f \in {output_left, output_right} THEN "complete" ELSE "absent"]

PlainFile == [is_dir |-> FALSE, rest |-> 0]
SubjectDir(n) == [is_dir |-> TRUE, rest |-> n]

RECURSIVE SumRest(_, _)
SumRest(tree, n) == IF n = 0 THEN 0 ELSE tree[n].rest + SumRest(tree, n - 1)

\* check_requirements (lines 71-89)
CheckRequirementsMut == atlas_missing = {}
CheckRequirements == IF ~wb_command THEN FALSE ELSE atlas_missing = {}

\* The subject directories find_subjects keeps (lines 95-100)
HasRest(e) == input_dir[e].is_dir /\ input_dir[e].rest > 0
Found == {e \in Entries : HasRest(e)}

\* Every order iterdir() may list a set of names in.
Orders(S) == {q \in [1..Cardinality(S) -> S] : \A e \in S : \E i \in DOMAIN q : q[i] = e}

NotSubmitted == [pc |-> "none", idx |-> 0, success_count |-> 0,
                 results |-> <<>>, ret |-> <<>>]
Pending == [NotSubmitted EXCEPT !.pc = "pending"]

Running == {e \in Entries : worker[e].pc = "running"}

\* The work item the pool hands to a free process: the oldest one queued.
NextQueued(e) ==
    \E i \in DOMAIN subjects :
        /\ subjects[i] = e
        /\ worker[e].pc = "pending"
        /\ \A j \in 1..(i - 1) : worker[subjects[j]].pc # "pending"

\* A test that wants at least one file as well.
FullySuccessfulNonEmpty(success_count, total_count) ==
    success_count = total_count /\ total_count > 0

\* line 249: the test that sorts a returned subject
FullySuccessful(success_count, total_count) == success_count = total_count

\* lines 246-256: the body of the as_completed loop for the future of
\* `subject`: <<successful_subjects, failed_subjects>> after it.
CollectFutureDrop(succ, fail, subject, w) ==
    IF w.pc = "exception" THEN <<succ, fail>>
    ELSE IF FullySuccessful(w.ret[2], w.ret[3])
         THEN <<Append(succ, w.ret[1]), fail>>
         ELSE <<succ, Append(fail, w.ret[1])>>
CollectFutureTwice(succ, fail, subject, w) ==
    IF w.pc = "exception" THEN <<succ, Append(fail, subject)>>
    ELSE IF FullySuccessful(w.ret[2], w.ret[3])
         THEN <<Append(succ, w.ret[1]), fail>>
         ELSE <<Append(succ, w.ret[1]), Append(fail, w.ret[1])>>
CollectFuture(succ, fail, subject, w) ==
    IF w.pc = "exception" THEN <<succ, Append(fail, subject)>>
    ELSE IF FullySuccessful(w.ret[2], w.ret[3])
         THEN <<Append(succ, w.ret[1]), fail>>
         ELSE <<succ, Append(fail, w.ret[1])>>

\* The list as the as_completed loop built it.
AsCollected(q) == q

\* sorted(list)
Sorted(q) == SortSeq(q, LAMBDA a, b : a < b)

\* generate_summary_report (lines 262-285): what the summary file says
SummaryReport(succ, fail, total_subjects) ==
    [total |-> total_subjects, n_success |-> Len(succ), n_failed |-> Len(fail),
     successful |-> Sorted(succ), failed |-> Sorted(fail)]

InitBatchIdle ==
    /\ cpu_count = 1
    /\ wb_command = TRUE
    /\ atlas_missing = {}
    /\ input_dir = [e \in Entries |-> PlainFile]
    /\ outdir = [e \in Entries |-> <<>>]
    /\ runPc = "start"
    /\ checked = "no"
    /\ discovered = FALSE
    /\ subjects = <<>>
    /\ pool = FALSE
    /\ worker = [e \in Entries |-> NotSubmitted]
    /\ psummary = [e \in Entries |-> <<>>]
    /\ collected = {}
    /\ successful_subjects = <<>>
    /\ failed_subjects = <<>>
    /\ summaries = <<>>
    /\ tool_runs = 0

InitTaskIdle ==
    /\ task = IdleTask(Fresh)
    /\ taskStart = Fresh
    /\ ncalls = 0

Init ==
    /\ InitParseIdle
    /\ InitTaskIdle
    /\ InitMergeIdle
    /\ cpu_count \in 1..MaxCores
    /\ wb_command \in BOOLEAN
    /\ atlas_missing \in {m \in SUBSET RefFiles : Cardinality(m) <= MaxMissing}
    /\ input_dir \in {tree \in [Entries -> {PlainFile} \cup {SubjectDir(n) : n \in 0..MaxRestFiles}] :
                        SumRest(tree, MaxEntries) <= MaxRestFiles}
    /\ outdir \in {o \in [Entries -> UNION {[1..n -> {Fresh, Done}] : n \in 0..MaxRestFiles}] :
                        \A e \in Entries : Len(o[e]) = input_dir[e].rest}
    /\ runPc = "start"
    /\ checked = "no"
    /\ discovered = FALSE
    /\ subjects = <<>>
    /\ pool = FALSE
    /\ worker = [e \in Entries |-> NotSubmitted]
    /\ psummary = [e \in Entries |-> <<>>]
    /\ collected = {}
    /\ successful_subjects = <<>>
    /\ failed_subjects = <<>>
    /\ summaries = <<>>
    /\ tool_runs = 0

\* run, lines 216-219
RunCheckRequirements ==
    /\ runPc = "start"
    /\ checked' = IF CheckRequirements THEN "passed" ELSE "failed"
    /\ runPc' = IF CheckRequirements THEN "find_subjects" ELSE "returned"
    /\ UNCHANGED <<parseVars, taskVars, mergeVars, cpu_count, wb_command, atlas_missing, input_dir, outdir,
                   discovered, subjects, pool, worker, psummary, collected,
                   successful_subjects, failed_subjects, summaries, tool_runs>>

\* run, lines 221-225, with find_subjects (lines 91-103)
RunFindSubjects ==
    /\ runPc = "find_subjects"
    /\ \E q \in Orders(Found) : subjects' = q
    /\ discovered' = TRUE
    /\ runPc' = IF Found = {} THEN "returned" ELSE "create_pool"
    /\ UNCHANGED <<parseVars, taskVars, mergeVars, cpu_count, wb_command, atlas_missing, input_dir, outdir,
                   checked, pool, worker, psummary, collected,
                   successful_subjects, failed_subjects, summaries, tool_runs>>

\* run, lines 228-241: ProcessPoolExecutor(max_workers=PARALLEL_JOBS) raises
\* ValueError unless max_workers > 0; otherwise every subject is submitted.
RunCreatePool ==
    /\ runPc = "create_pool"
    /\ IF PARALLEL_JOBS <= 0
       THEN /\ runPc' = "crashed"
            /\ UNCHANGED <<parseVars, pool, worker>>
       ELSE /\ runPc' = "collect"
            /\ pool' = TRUE
            /\ worker' = [e \in Entries |->
                            IF e \in Range(subjects) THEN Pending ELSE worker[e]]
    /\ UNCHANGED <<parseVars, taskVars, mergeVars, cpu_count, wb_command, atlas_missing, input_dir, outdir,
                   checked, discovered, subjects, psummary, collected,
                   successful_subjects, failed_subjects, summaries, tool_runs>>

\* The input tree belongs to its owner, not to the run: between the glob of
\* find_subjects (line 97) and the glob of the worker (line 181) the REST
\* files of a subject still queued may be moved away.
RestFilesRemoved(e) ==
    /\ worker[e].pc = "pending"
    /\ input_dir[e].rest > 0
    /\ input_dir' = [input_dir EXCEPT ![e].rest = 0]
    /\ UNCHANGED <<parseVars, taskVars, mergeVars, cpu_count, wb_command, atlas_missing, outdir,
                   runPc, checked, discovered, subjects, pool, worker, psummary,
                   collected, successful_subjects, failed_subjects, summaries,
                   tool_runs>>

\* A pool process takes the next work item and enters process_subject
\* (lines 174-186).
WorkerStart(e) ==
    /\ pool
    /\ NextQueued(e)
    /\ Cardinality(Running) < PARALLEL_JOBS
    /\ worker' = [worker EXCEPT ![e] =
            IF input_dir[e].rest = 0
            THEN [@ EXCEPT !.pc = "result", !.ret = <<e, 0, 0, "no_rest_files">>]
            ELSE [@ EXCEPT !.pc = "running", !.idx = 1]]
    /\ UNCHANGED <<parseVars, taskVars, mergeVars, cpu_count, wb_command, atlas_missing, input_dir, outdir,
                   runPc, checked, discovered, subjects, pool, psummary, collected,
                   successful_subjects, failed_subjects, summaries, tool_runs>>

\* lines 190-193 with a count of the "success" messages only
RecordResultSuccessOnly(w, i, result) ==
    [w EXCEPT !.idx = i + 1,
              !.success_count = IF result = Success THEN @ + 1 ELSE @,
              !.results = Append(@, <<i, result[1], result[2]>>)]

\* lines 190-193: the result of file i is appended, and counted if its
\* first component is True.
RecordResult(w, i, result) ==
    [w EXCEPT !.idx = i + 1,
              !.success_count = IF result[1] THEN @ + 1 ELSE @,
              !.results = Append(@, <<i, result[1], result[2]>>)]

\* One round of the loop of process_subject (lines 189-193): a whole
\* process_cifti_file call.  An exception it lets through ends the worker.
WorkerProcessFile(e) ==
    /\ worker[e].pc = "running"
    /\ worker[e].idx <= input_dir[e].rest
    /\ \E os \in TaskOutcomes :
        LET i == worker[e].idx
            t == RunTask(outdir[e][i], os)
        IN  /\ outdir' = [outdir EXCEPT ![e][i] = t.disk]
            /\ tool_runs' = tool_runs + Len(t.calls)
            /\ worker' = [worker EXCEPT ![e] =
                    IF t.pc = "raised"
                    THEN [@ EXCEPT !.pc = "exception"]
                    ELSE RecordResult(@, i, t.result)]
    /\ UNCHANGED <<parseVars, taskVars, mergeVars, cpu_count, wb_command, atlas_missing, input_dir,
                   runPc, checked, discovered, subjects, pool, psummary, collected,
                   successful_subjects, failed_subjects, summaries>>

\* process_subject after its loop (lines 195-208): the per-subject summary,
\* then the return.
WorkerFinish(e) ==
    /\ worker[e].pc = "running"
    /\ worker[e].idx > input_dir[e].rest
    /\ psummary' = [psummary EXCEPT ![e] =
            <<worker[e].success_count, input_dir[e].rest, worker[e].results>>]
    /\ worker' = [worker EXCEPT ![e] =
            [@ EXCEPT !.pc = "result",
                      !.ret = <<e, worker[e].success_count, input_dir[e].rest, "done">>]]
    /\ UNCHANGED <<parseVars, taskVars, mergeVars, cpu_count, wb_command, atlas_missing, input_dir, outdir,
                   runPc, checked, discovered, subjects, pool, collected,
                   successful_subjects, failed_subjects, summaries, tool_runs>>

\* One round of the as_completed loop of run (lines 245-257).
RunCollect(e) ==
    /\ runPc = "collect"
    /\ e \in Range(subjects) \ collected
    /\ worker[e].pc \in {"result", "exception"}
    /\ LET r == CollectFuture(successful_subjects, failed_subjects, e, worker[e])
       IN  /\ successful_subjects' = r[1]
           /\ failed_subjects' = r[2]
    /\ collected' = collected \cup {e}
    /\ UNCHANGED <<parseVars, taskVars, mergeVars, cpu_count, wb_command, atlas_missing, input_dir, outdir,
                   runPc, checked, discovered, subjects, pool, worker, psummary,
                   summaries, tool_runs>>

\* A KeyboardInterrupt reaches run while it waits in as_completed
\* (line 245) with work items still queued.  run has no handler: the
\* exception leaves the loop and the with block of line 236, whose exit is
\* executor.shutdown(wait=True), without cancel_futures.  The signal may
\* have reached the parent alone, and the pool works on; or the pool's
\* processes as well, which then die with the subject they were at.
Abandoned(w) == IF w.pc = "running" THEN [w EXCEPT !.pc = "abandoned"] ELSE w

RunInterrupt ==
    /\ runPc = "collect"
    /\ \E e \in Entries : worker[e].pc = "pending"
    /\ runPc' = "interrupted"
    /\ \/ pool' = TRUE /\ worker' = worker
       \/ pool' = FALSE /\ worker' = [e \in Entries |-> Abandoned(worker[e])]
    /\ UNCHANGED <<parseVars, taskVars, mergeVars, cpu_count, wb_command, atlas_missing, input_dir,
                   outdir, checked, discovered, subjects, psummary, collected,
                   successful_subjects, failed_subjects, summaries, tool_runs>>

\* shutdown(wait=True) has returned: the KeyboardInterrupt leaves run, and
\* line 260 is not reached.
RunInterruptExit ==
    /\ runPc = "interrupted"
    /\ ~pool \/ \A e \in Entries : worker[e].pc \notin {"pending", "running"}
    /\ runPc' = "killed"
    /\ UNCHANGED <<parseVars, taskVars, mergeVars, cpu_count, wb_command, atlas_missing, input_dir,
                   outdir, checked, discovered, subjects, pool, worker, psummary, collected,
                   successful_subjects, failed_subjects, summaries, tool_runs>>

\* run, line 260, once as_completed is exhausted and the pool shut down.
RunGenerateSummary ==
    /\ runPc = "collect"
    /\ collected = Range(subjects)
    /\ summaries' = Append(summaries,
            SummaryReport(successful_subjects, failed_subjects, Len(subjects)))
    /\ runPc' = "done"
    /\ UNCHANGED <<parseVars, taskVars, mergeVars, cpu_count, wb_command, atlas_missing, input_dir, outdir,
                   checked, discovered, subjects, pool, worker, psummary, collected,
                   successful_subjects, failed_subjects, tool_runs>>

Next ==
    \/ RunCheckRequirements
    \/ RunFindSubjects
    \/ RunCreatePool
    \/ \E e \in Entries : RestFilesRemoved(e)
    \/ \E e \in Entries : WorkerStart(e)
    \/ \E e \in Entries : WorkerProcessFile(e)
    \/ \E e \in Entries : WorkerFinish(e)
    \/ \E e \in Entries : RunCollect(e)
    \/ RunGenerateSummary

Spec == Init /\ [][Next]_vars

\* The same run in an environment that may interrupt it.
NextInterrupt == Next \/ RunInterrupt \/ RunInterruptExit

SpecInterrupt == Init /\ [][NextInterrupt]_vars

(***************************************************************************)
(* SpecTask: process_cifti_file called again and again on one directory    *)
(***************************************************************************)
InitTask ==
    /\ InitParseIdle
    /\ \E d \in Dirs : task = IdleTask(d) /\ taskStart = d
    /\ ncalls = 0
    /\ InitBatchIdle
    /\ InitMergeIdle

\* A caller enters process_cifti_file.
CallTask ==
    /\ task.pc = "idle" \/ TaskEnded(task)
    /\ ncalls < MaxCalls
    /\ task' = NewTask(task.disk)
    /\ taskStart' = task.disk
    /\ ncalls' = ncalls + 1
    /\ UNCHANGED <<parseVars, batchVars, mergeVars>>

CheckProcessed ==
    /\ task.pc = "check"
    /\ task' = TaskStep(task, NotRun)
    /\ UNCHANGED <<parseVars, taskStart, ncalls, batchVars, mergeVars>>

RunTool ==
    /\ task.pc \in {"separate", "resample_left", "resample_right"}
    /\ \E o \in ToolOutcomes(Targets(task.pc)) : task' = TaskStep(task, o)
    /\ UNCHANGED <<parseVars, taskStart, ncalls, batchVars, mergeVars>>

CleanupTemp ==
    /\ task.pc = "cleanup"
    /\ task' = TaskStep(task, NotRun)
    /\ UNCHANGED <<parseVars, taskStart, ncalls, batchVars, mergeVars>>

CleanupFailed ==
    /\ task.pc = "except"
    /\ task' = TaskStep(task, NotRun)
    /\ UNCHANGED <<parseVars, taskStart, ncalls, batchVars, mergeVars>>

NextTask == CallTask \/ CheckProcessed \/ RunTool \/ CleanupTemp \/ CleanupFailed

SpecTask == InitTask /\ [][NextTask]_vars

(***************************************************************************)
(* SpecMerge: one process_subject call of the merge stage                  *)
(***************************************************************************)
Hemi(k) == IF ".L." \in patterns[k] THEN "L" ELSE "R"

\* The lists glob("*.func.gii") may return for a directory the resample
\* stage filled: at most MaxPresent hemisphere files, each of its own
\* acquisition key, every left file with vl vertices and every right file
\* with vr. A file has MaxT or MaxT - 1 timepoints, or none when it cannot
\* be read (T = 0). The directories drawn are those of finite files that may
\* differ in length, those of full-length files holding one odd value, and
\* those of full-length files some of which cannot be read.
Lengths(K) ==
    [fill : {"index", "flat"}, ts : [K -> {MaxT - 1, MaxT}]]
    \cup [fill : Fills \ {"index", "flat"}, ts : [K -> {MaxT}]]
    \cup [fill : {"index"}, ts : [K -> {0, MaxT}]]

OutputDirs ==
    UNION {
      UNION {
        { [i \in 1..Len(q) |->
              [key |-> q[i], filename |-> patterns[q[i]], T |-> c.ts[q[i]],
               V |-> IF Hemi(q[i]) = "L" THEN vl ELSE vr, fill |-> c.fill]]
          : c \in Lengths(K), vl \in {MaxV - 1, MaxV},
            vr \in {MaxV - 1, MaxV} }
        : q \in {SelectSeq(AcqKeys, LAMBDA k : k \in K)} }
      : K \in {S \in SUBSET Range(AcqKeys) : Cardinality(S) <= MaxPresent} }

\* The intermediate file temp_<basename>.<H>.32k.func.gii of the resample
\* stage (hcp_batch_resample_py.py lines 114-115) for the acquisition of
\* output file f, left where the outputs are: the same basename and
\* hemisphere mark, and the native mesh, which has more vertices.
Leftover(f) ==
    [f EXCEPT !.filename = f.filename \cup {"temp_"}, !.V = f.V + 1]
IsLeftover(f) == "temp_" \in f.filename

InsertAt(q, i, x) == SubSeq(q, 1, i - 1) \o <<x>> \o SubSeq(q, i, Len(q))

\* Directories of full-length outputs with the leftover of one of them,
\* which glob may list before or after that output.
LeftoverDirs ==
    UNION { {InsertAt(q, i + d, Leftover(q[i])) : i \in DOMAIN q, d \in {0, 1}}
            : q \in {r \in OutputDirs :
                        /\ Len(r) < MaxPresent
                        /\ \A j \in DOMAIN r : r[j].T = MaxT /\ r[j].fill = "index"} }

\* Directories holding both full-length files of two acquisitions.
TwoPairDirs ==
    { [i \in 1..Len(q) |->
          [key |-> q[i], filename |-> patterns[q[i]], T |-> MaxT,
           V |-> IF Hemi(q[i]) = "L" THEN vl ELSE vr, fill |-> "index"]]
      : q \in {SelectSeq(AcqKeys, LAMBDA k : k \in {merge_pairs[a][1], merge_pairs[a][2],
                                                     merge_pairs[b][1], merge_pairs[b][2]})
                : a, b \in DOMAIN merge_pairs},
        vl \in {MaxV - 1, MaxV}, vr \in {MaxV - 1, MaxV} }

SubjectDirs == OutputDirs \cup LeftoverDirs \cup TwoPairDirs

InitMerge ==
    /\ InitParseIdle
    /\ InitTaskIdle
    /\ InitBatchIdle
    /\ gifti_files \in SubjectDirs
    /\ save_formats \in {{"numpy"}, {"gifti"}, {"numpy", "gifti"}}
    /\ out_exists \in BOOLEAN
    /\ out_content = <<>>
    /\ mruns = 1
    /\ save_errors = {}
    /\ mpc = "start"
    /\ subject_data = NoData
    /\ merged_data = EmptyDict
    /\ validation_results = EmptyDict
    /\ mret = <<>>

\* process_subject, lines 375-377
MergeLoad ==
    /\ mpc = "start"
    /\ subject_data' = load_subject_data(gifti_files)
    /\ IF subject_data' = NoData
       THEN mpc' = "returned" /\ mret' = <<FALSE, "cannot_load">>
       ELSE mpc' = "merge" /\ mret' = mret
    /\ UNCHANGED <<parseVars, taskVars, batchVars, gifti_files, save_formats, out_exists,
                   out_content, mruns, save_errors, merged_data, validation_results>>

\* process_subject, lines 380-382
MergeMerge ==
    /\ mpc = "merge"
    /\ merged_data' = merge_hemispheres(subject_data)
    /\ IF merged_data' = EmptyDict
       THEN mpc' = "returned" /\ mret' = <<FALSE, "nothing_to_merge">>
       ELSE mpc' = "validate" /\ mret' = mret
    /\ UNCHANGED <<parseVars, taskVars, batchVars, gifti_files, save_formats, out_exists,
                   out_content, mruns, save_errors, subject_data, validation_results>>

\* process_subject, lines 385-387 with validate_merged_data: open() of
\* validation_results.json raises FileNotFoundError when the subject's
\* output directory does not exist; the except of process_subject
\* (lines 395-397) turns that into (False, str(e)).
MergeValidate ==
    /\ mpc = "validate"
    /\ validation_results' = Validate(merged_data)
    /\ IF out_exists
       THEN /\ out_content' = WriteFile(out_content, ValidationFile, validation_results')
            /\ mpc' = "save"
            /\ mret' = mret
       ELSE /\ out_content' = out_content
            /\ mpc' = "returned"
            /\ mret' = <<FALSE, "FileNotFoundError">>
    /\ UNCHANGED <<parseVars, taskVars, batchVars, gifti_files, save_formats, out_exists,
                   mruns, save_errors, subject_data, merged_data>>

\* process_subject, lines 390-393 with save_merged_data
MergeSave ==
    /\ mpc = "save"
    /\ out_exists' = TRUE
    /\ \E failing \in GiftiFailures(merged_data, save_formats) :
          /\ out_content' = save_merged_data(out_content, merged_data,
                                              save_formats, failing, mruns)
          /\ save_errors' = failing
    /\ mpc' = "returned"
    /\ mret' = <<TRUE, "merged_data">>
    /\ UNCHANGED <<parseVars, taskVars, batchVars, gifti_files, save_formats, mruns,
                   subject_data, merged_data, validation_results>>

\* The caller runs process_subject once more on the same subject, with the
\* same arguments and the same input files.
MergeRerun ==
    /\ mpc = "returned"
    /\ mruns = 1
    /\ mruns' = mruns + 1
    /\ mpc' = "start"
    /\ subject_data' = NoData
    /\ merged_data' = EmptyDict
    /\ validation_results' = EmptyDict
    /\ save_errors' = {}
    /\ mret' = <<>>
    /\ UNCHANGED <<parseVars, taskVars, batchVars, gifti_files, save_formats, out_exists,
                   out_content>>

NextMerge == MergeLoad \/ MergeMerge \/ MergeValidate \/ MergeSave \/ MergeRerun

SpecMerge == InitMerge /\ [][NextMerge]_vars

(***************************************************************************)
(* SpecParse: one parse_filename call on any file name                     *)
(***************************************************************************)
InitParse ==
    /\ InitTaskIdle
    /\ InitBatchIdle
    /\ InitMergeIdle
    /\ file_name \in FileNames
    /\ parsed = "not_called"

\* parse_filename, lines 79-96
ParseFilename ==
    /\ parsed = "not_called"
    /\ parsed' = parse_filename(file_name)
    /\ UNCHANGED <<taskVars, batchVars, mergeVars, file_name>>

NextParse == ParseFilename

SpecParse == InitParse /\ [][NextParse]_vars

(***************************************************************************)
(* SpecProcessTask: HCPResampler.process_task (hcp_resample.py) on one     *)
(* input file, the Atlas block (lines 144-165); the MSMAll block           *)
(* (lines 168-189) is the same code on its own four paths.                 *)
(***************************************************************************)
\* process_task has no skip test: it starts with separate_cifti.
NewProcessTask(d) == [NewTask(d) EXCEPT !.pc = "separate"]

\* separate_cifti and resample_metric (lines 83-130): the command is run
\* with check=True, a CalledProcessError is logged and turned into False,
\* anything else is let through.  `onTrue` and `onFalse` are where
\* process_task goes on for either return value.
RunWrapped(t, name, o, onTrue, onFalse) ==
    LET logged == Append(t.calls, <<name, o.exit>>) IN
    CASE o.exit = "ok" ->
            [t EXCEPT !.disk = WriteFiles(t.disk, o.wrote, "complete"),
                      !.calls = logged, !.pc = onTrue]
      [] o.exit = "nonzero" ->
            [t EXCEPT !.disk = WriteFiles(t.disk, o.wrote, "partial"),
                      !.calls = logged, !.pc = onFalse,
                      !.caught = CalledProcessError(name)]
      [] OTHER ->
            [t EXCEPT !.calls = logged, !.pc = "raised"]

\* One step of the block: the value separate_cifti returns is tested
\* (line 157), the values resample_metric returns are dropped
\* (lines 159-161), the intermediate files are unlinked inside the if
\* (lines 164-165).
ProcessTaskStep(t, o) ==
    CASE t.pc = "separate" ->
            RunWrapped(t, "separate", o, "resample_left", "returned")
      [] t.pc = "resample_left" ->
            RunWrapped(t, "resample_left", o, "resample_right", "resample_right")
      [] t.pc = "resample_right" ->
            RunWrapped(t, "resample_right", o, "unlink", "unlink")
      [] t.pc = "unlink" ->
            [t EXCEPT !.disk = Unlink(t.disk, {temp_left, temp_right}),
                      !.pc = "returned"]
      [] OTHER -> t

InitProcessTask ==
    /\ InitParseIdle
    /\ InitBatchIdle
    /\ InitMergeIdle
    /\ \E d \in Dirs : task = NewProcessTask(d) /\ taskStart = d
    /\ ncalls = 1

PTRunTool ==
    /\ task.pc \in {"separate", "resample_left", "resample_right"}
    /\ \E o \in ToolOutcomes(Targets(task.pc)) : task' = ProcessTaskStep(task, o)
    /\ UNCHANGED <<parseVars, taskStart, ncalls, batchVars, mergeVars>>

PTUnlink ==
    /\ task.pc = "unlink"
    /\ task' = ProcessTaskStep(task, NotRun)
    /\ UNCHANGED <<parseVars, taskStart, ncalls, batchVars, mergeVars>>

NextProcessTask == PTRunTool \/ PTUnlink

SpecProcessTask == InitProcessTask /\ [][NextProcessTask]_vars

(***************************************************************************)
(* Properties                                                              *)
(***************************************************************************)
Occurrences(q, x) == Cardinality({i \in DOMAIN q : q[i] = x})

BothOutputsAtStart == Exists(taskStart, output_left) /\ Exists(taskStart, output_right)

NonzeroExit(t) == \E i \in DOMAIN t.calls : t.calls[i][2] = "nonzero"

\* C1 (SpecTask): a process_cifti_file call that starts with both hemisphere
\* output files present returns (True, "already exists"), runs no tool and
\* leaves every file of the directory as it found it, at every step of the
\* call and in every repetition of the call.
C1_AlreadyDoneIsIdempotent ==
    (task.pc # "idle" /\ BothOutputsAtStart) =>
        /\ task.pc \in {"check", "returned"}
        /\ task.calls = <<>>
        /\ task.disk = taskStart
        /\ task.pc = "returned" => task.result = AlreadyDone

C1_Witness ==
    /\ ncalls = MaxCalls
    /\ task.pc = "returned"
    /\ BothOutputsAtStart
    /\ task.result = AlreadyDone

\* C2 (SpecTask): when a tool run of the call exited nonzero, the call
\* returns Failed and at its return none of the four files of the task
\* exists.
C2_FailedLeavesNoFile ==
    (task.pc = "returned" /\ NonzeroExit(task)) =>
        /\ task.result = Failed
        /\ \A f \in TaskFiles : ~Exists(task.disk, f)

C2_Witness ==
    /\ task.pc = "returned"
    /\ Len(task.calls) = 3
    /\ task.calls[3] = <<"resample_right", "nonzero">>
    /\ taskStart[output_left] = "complete"
    /\ task.result = Failed

LastSummary == summaries[Len(summaries)]

\* C3 (Spec): in the batch summary every discovered subject is in exactly
\* one of the two lists, once, and the two counts add up to the number of
\* subjects.
C3_SummaryPartitionsSubjects ==
    runPc = "done" =>
        /\ \A e \in Range(subjects) :
              Occurrences(LastSummary.successful, e)
                  + Occurrences(LastSummary.failed, e) = 1
        /\ Range(LastSummary.successful) \cup Range(LastSummary.failed)
                \subseteq Range(subjects)
        /\ LastSummary.n_success + LastSummary.n_failed = Len(subjects)
        /\ LastSummary.total = Len(subjects)
        /\ LastSummary.n_success = Len(LastSummary.successful)
        /\ LastSummary.n_failed = Len(LastSummary.failed)

C3_Witness ==
    /\ runPc = "done"
    /\ PARALLEL_JOBS >= 2
    /\ Len(subjects) >= 2
    /\ LastSummary.n_success >= 1
    /\ LastSummary.n_failed >= 1

\* C4 (Spec): a subject whose worker raised is, once its future has been
\* collected, in the failed list exactly once and not in the successful
\* list; every other collected subject is classified by its own counts;
\* and the run goes on to collect every subject and to write the summary.
C4_WorkerExceptionIsContained ==
    /\ \A e \in collected :
          IF worker[e].pc = "exception"
          THEN /\ Occurrences(failed_subjects, e) = 1
               /\ Occurrences(successful_subjects, e) = 0
          ELSE /\ Occurrences(successful_subjects, e)
                    = (IF worker[e].ret[2] = worker[e].ret[3] THEN 1 ELSE 0)
               /\ Occurrences(failed_subjects, e)
                    = (IF worker[e].ret[2] = worker[e].ret[3] THEN 0 ELSE 1)
    /\ (\E e \in Entries : worker[e].pc = "exception") =>
          /\ runPc \in {"collect", "done"}
          /\ runPc = "done" => (collected = Range(subjects) /\ Len(summaries) = 1)

C4_Witness ==
    /\ runPc = "done"
    /\ Len(summaries) = 1
    /\ \E e \in Entries : \E g \in Entries :
          /\ worker[e].pc = "exception"
          /\ worker[g].pc = "result"
          /\ Occurrences(LastSummary.successful, g) = 1
          /\ Occurrences(LastSummary.failed, e) = 1

RunEnded == runPc \in {"returned", "crashed", "done"}

\* C5 (Spec): a run whose prerequisite check passed and that discovered at
\* least one subject ends with exactly one batch summary written, and a
\* summary is written only once every submitted subject has been collected.
C5_RunEndsWithOneSummary ==
    /\ (RunEnded /\ checked = "passed" /\ discovered /\ subjects # <<>>) =>
          Len(summaries) = 1
    /\ summaries # <<>> => collected = Range(subjects)

PrereqOk == wb_command /\ atlas_missing = {}

NoBatchWork ==
    /\ ~pool
    /\ \A e \in Entries : worker[e] = NotSubmitted
    /\ tool_runs = 0
    /\ summaries = <<>>

\* C6 (Spec): when the tool or a reference file is missing, or discovery
\* finds no subject, run returns with no pool created, no worker run, no
\* separate/resample run and no batch summary; discovery happens only after
\* the prerequisite check has passed.
C6_FatalCasesDoNoWork ==
    /\ ~PrereqOk => (NoBatchWork /\ ~discovered /\ (checked # "no" => runPc = "returned"))
    /\ (discovered /\ subjects = <<>>) => (NoBatchWork /\ runPc = "returned")
    /\ discovered => checked = "passed"

C6_Witness ==
    /\ runPc = "returned"
    /\ checked = "failed"
    /\ ~wb_command
    /\ atlas_missing = {}
    /\ Found # {}

Merged == mpc \in {"validate", "save"} \/ (mpc = "returned" /\ merged_data # EmptyDict)

Complete(p) == merge_pairs[p][1] \in DOMAIN subject_data /\ merge_pairs[p][2] \in DOMAIN subject_data

LeftTs(p) == subject_data[merge_pairs[p][1]].timeseries
RightTs(p) == subject_data[merge_pairs[p][2]].timeseries
MergedRec(p) == merged_data[merge_pairs[p][3]]

\* C7 (SpecMerge): for a pair whose left array is (T, Vl) and right array
\* (T, Vr), the merged array is (T, Vl+Vr), its columns 1..Vl are the left
\* array, its columns Vl+1..Vl+Vr the right array, and the record carries
\* n_vertices_left = Vl and n_vertices_right = Vr.
C7_MergeConcatenatesLeftThenRight ==
    \A p \in DOMAIN merge_pairs :
        (Merged /\ Complete(p) /\ Len(LeftTs(p)) = Len(RightTs(p))) =>
            /\ merge_pairs[p][3] \in DOMAIN merged_data
            /\ LET T == Len(LeftTs(p))
                   Vl == Len(LeftTs(p)[1])
                   Vr == Len(RightTs(p)[1])
                   M == MergedRec(p).timeseries
               IN  /\ Len(M) = T
                   /\ \A i \in 1..T :
                        /\ Len(M[i]) = Vl + Vr
                        /\ \A j \in 1..Vl : M[i][j] = LeftTs(p)[i][j]
                        /\ \A j \in 1..Vr : M[i][Vl + j] = RightTs(p)[i][j]
                   /\ MergedRec(p).n_vertices_left = Vl
                   /\ MergedRec(p).n_vertices_right = Vr
                   /\ MergedRec(p).n_timepoints = T
                   /\ MergedRec(p).n_vertices = Vl + Vr

C7_Witness ==
    /\ Merged
    /\ \E p \in DOMAIN merge_pairs :
          /\ Complete(p)
          /\ Len(LeftTs(p)) = Len(RightTs(p))
          /\ Len(LeftTs(p)) = MaxT
          /\ Len(LeftTs(p)[1]) # Len(RightTs(p)[1])
          /\ LeftTs(p)[1][1] # RightTs(p)[1][1]
          /\ merge_pairs[p][3] \in DOMAIN merged_data

\* C8 (SpecMerge): for a pair whose arrays have Tl # Tr timepoints, the
\* merged array has min(Tl, Tr) rows and its row i is row i of the left
\* array followed by row i of the right array.
C8_MismatchTruncatesToHead ==
    \A p \in DOMAIN merge_pairs :
        (Merged /\ Complete(p) /\ Len(LeftTs(p)) # Len(RightTs(p))) =>
            /\ merge_pairs[p][3] \in DOMAIN merged_data
            /\ LET n == Min2(Len(LeftTs(p)), Len(RightTs(p)))
                   M == MergedRec(p).timeseries
               IN  /\ Len(M) = n
                   /\ MergedRec(p).n_timepoints = n
                   /\ \A i \in 1..n : M[i] = LeftTs(p)[i] \o RightTs(p)[i]

C8_Witness ==
    /\ Merged
    /\ \E p \in DOMAIN merge_pairs :
          /\ Complete(p)
          /\ Len(LeftTs(p)) > Len(RightTs(p))
          /\ LeftTs(p)[1] # LeftTs(p)[Len(LeftTs(p))]
          /\ Len(MergedRec(p).timeseries) = Len(RightTs(p))

\* C9 (SpecMerge): a pair gets a merged record iff both its keys were
\* loaded, and a subject with at least one complete pair has been processed
\* successfully when process_subject returns.
C9_CompletePairsMergedAndSubjectSucceeds ==
    /\ Merged =>
          \A p \in DOMAIN merge_pairs :
              merge_pairs[p][3] \in DOMAIN merged_data <=> Complete(p)
    /\ (mpc = "returned" /\ subject_data # NoData
            /\ \E p \in DOMAIN merge_pairs : Complete(p)) => mret[1] = TRUE

\* C10 (SpecMerge): when process_subject returns, every merged record has
\* its data file(s) and its metadata file in the output directory, and its
\* checks are in the validation results, whatever the checks say.
C10_EveryMergedRecordPersisted ==
    (mpc = "returned" /\ merged_data # EmptyDict) =>
        /\ SavedFiles(merged_data, save_formats) \subseteq out_files
        /\ DOMAIN validation_results = DOMAIN merged_data

NaNCells(ts) == {c \in (DOMAIN ts) \X (1..Len(ts[1])) : IsNaN(ts[c[1]][c[2]])}
InBand(v) == ~IsNaN(v) /\ ~IsInf(v) /\ -1000 < v /\ v < 1000
Validated == DOMAIN validation_results
RecordFiles(k) == SavedFiles([x \in {k} |-> merged_data[k]], save_formats)

\* C11 (SpecMerge): a merged record holding exactly one NaN among values
\* that are otherwise finite and inside the band fails the no_nan check,
\* passes every other check, and has its files in the output directory
\* when process_subject returns.
C11_OneNaNFailsOnlyNoNan ==
    \A k \in Validated :
        LET ts == merged_data[k].timeseries
        IN  (/\ Cardinality(NaNCells(ts)) = 1
             /\ \A v \in Cells(ts) \ {NaN} : InBand(v)) =>
                /\ validation_results[k].checks.no_nan = FALSE
                /\ \A c \in CheckNames \ {"no_nan"} :
                       validation_results[k].checks[c] = TRUE
                /\ mpc = "returned" => RecordFiles(k) \subseteq out_files

\* C12 (SpecMerge): when process_subject returns for a subject with at least
\* one complete pair, it returns success, and the output directory holds the
\* data and metadata files of every record and validation_results.json,
\* whether the subject's output directory existed before the call or not.
C12_OutputsWrittenWhetherOrNotDirExisted ==
    (mpc = "returned" /\ \E p \in DOMAIN merge_pairs : Complete(p)) =>
        /\ mret[1] = TRUE
        /\ ValidationFile \in out_files
        /\ \A k \in DOMAIN merged_data : RecordFiles(k) \subseteq out_files

\* C18 (SpecMerge): reasonable_range is passed by every record whose values
\* are all finite and of magnitude below 1000, all-equal records included,
\* and failed by every record holding a value of magnitude 1000 or more.
C18_ReasonableRangeIsTheBand ==
    \A k \in Validated :
        LET ts == merged_data[k].timeseries
            ok == validation_results[k].checks.reasonable_range
        IN  /\ (\A v \in Cells(ts) : InBand(v)) => ok = TRUE
            /\ (\E v \in Cells(ts) : ~IsNaN(v) /\ (v >= 1000 \/ v <= -1000))
                    => ok = FALSE

Unreadable(f) == f.T = 0

\* File n of the list is the last one glob lists for its acquisition.
LastOfKey(n) ==
    \A m \in DOMAIN gifti_files : m > n => gifti_files[m].key # gifti_files[n].key
Files == Range(gifti_files)
Loaded == mpc \notin {"idle", "start"}

\* C20 (SpecMerge): once load_subject_data has run, no unreadable file has
\* an entry in the loaded data and every readable file has one, with the
\* array the file holds; when every file is unreadable the loader yields
\* no data, and process_subject returns failure with the output directory
\* left without any file.
C20_UnreadableFileIsSkipped ==
    Loaded =>
        /\ \A n \in DOMAIN gifti_files :
              LET f == gifti_files[n] IN
              IF Unreadable(f) THEN f.key \notin DOMAIN subject_data
              ELSE /\ f.key \in DOMAIN subject_data
                   /\ LastOfKey(n) =>
                        LET ts == subject_data[f.key].timeseries
                        IN  /\ Len(ts) = f.T
                            /\ \A i \in 1..f.T :
                                 ts[i] = [j \in 1..f.V |-> Cell(f, i, j)]
        /\ (\A f \in Files : Unreadable(f)) =>
              /\ subject_data = NoData
              /\ mpc = "returned"
              /\ mret[1] = FALSE
              /\ out_files = {}

C20_Witness ==
    /\ mpc = "returned"
    /\ \E f, g \in Files :
          /\ Unreadable(f) /\ ~Unreadable(g)
          /\ KeyIndex(f.key) < KeyIndex(g.key)
          /\ g.key \in DOMAIN subject_data

Returned(e) == worker[e].pc = "result"
NoDataFound(e) == Returned(e) /\ worker[e].ret[4] = "no_rest_files"

\* C13 (Spec): a collected subject is in the successful list exactly when
\* the two counts its worker returned are equal, whatever the status says;
\* a worker that returned "no data found" returned 0 of 0, is put in the
\* successful list once collected, and wrote no per-subject summary.
C13_ClassifiedByCountsOnly ==
    \A e \in Entries :
        /\ (e \in collected /\ Returned(e)) =>
              /\ e \in Range(successful_subjects)
                    <=> worker[e].ret[2] = worker[e].ret[3]
              /\ e \in Range(failed_subjects)
                    <=> worker[e].ret[2] # worker[e].ret[3]
        /\ NoDataFound(e) =>
              /\ worker[e].ret[2] = 0 /\ worker[e].ret[3] = 0
              /\ psummary[e] = <<>>
              /\ e \in collected =>
                    /\ e \in Range(successful_subjects)
                    /\ e \notin Range(failed_subjects)

C13_Witness ==
    /\ runPc = "done"
    /\ \E e \in collected :
          /\ NoDataFound(e)
          /\ e \in Range(LastSummary.successful)
    /\ \E e \in collected : Returned(e) /\ worker[e].ret[3] > 0

\* C14 (Spec): what find_subjects returned, seen before anything else runs,
\* is the list of the subdirectories holding at least one REST file, each
\* once, in ascending order; no plain file and no directory without such a
\* file is in it.
C14_FindSubjectsSortedExact ==
    (discovered /\ runPc \in {"create_pool", "returned"}) =>
        /\ Range(subjects) = {e \in Entries : input_dir[e].is_dir /\ input_dir[e].rest > 0}
        /\ Len(subjects) = Cardinality(Range(subjects))
        /\ \A i, j \in DOMAIN subjects : i < j => subjects[i] < subjects[j]

Successes(results) == Cardinality({i \in DOMAIN results : results[i][2] = TRUE})

\* C15 (Spec): a worker that found n >= 1 files has, while it runs, one
\* result for each file it is past, in file order, counted as a success
\* exactly when its first component is True, and no per-subject summary
\* yet; when it returns it has a result for every one of the n files,
\* total_count = n, success_count = the number of True results, between 0
\* and n, and the per-subject summary holds these.
C15_WorkerRunsEveryFile ==
    \A e \in Entries :
        LET w == worker[e]
        IN  /\ w.pc = "running" =>
                  /\ Len(w.results) = w.idx - 1
                  /\ \A i \in DOMAIN w.results : w.results[i][1] = i
                  /\ w.success_count = Successes(w.results)
                  /\ psummary[e] = <<>>
            /\ (Returned(e) /\ ~NoDataFound(e)) =>
                  /\ w.ret[3] = input_dir[e].rest
                  /\ w.ret[3] >= 1
                  /\ Len(w.results) = w.ret[3]
                  /\ \A i \in DOMAIN w.results : w.results[i][1] = i
                  /\ w.ret[2] = Successes(w.results)
                  /\ 0 <= w.ret[2] /\ w.ret[2] <= w.ret[3]
                  /\ psummary[e] = <<w.ret[2], w.ret[3], w.results>>
            /\ psummary[e] # <<>> => Returned(e)

C15_Witness ==
    \E e \in Entries :
        /\ Returned(e)
        /\ worker[e].ret[3] = MaxRestFiles
        /\ worker[e].ret[2] = 1
        /\ worker[e].results[1][2] = FALSE
        /\ worker[e].results[MaxRestFiles][3] = AlreadyDone[2]

ToolOrder == <<"separate", "resample_left", "resample_right">>

\* The tool runs of the call so far are the first ones of ToolOrder, each
\* made once, and every one but the last exited 0.
CallsInOrder ==
    \A i \in DOMAIN task.calls :
        /\ i <= Len(ToolOrder)
        /\ task.calls[i][1] = ToolOrder[i]
        /\ i < Len(task.calls) => task.calls[i][2] = "ok"

\* A step that removes an intermediate file.
TempDeleted ==
    \E f \in {temp_left, temp_right} :
        Exists(task.disk, f) /\ ~Exists(task'.disk, f)

BothResamplesReturned == Len(task.calls) = Len(ToolOrder)
LastRunFailed ==
    task.calls # <<>> /\ task.calls[Len(task.calls)][2] = "nonzero"

\* C16 (SpecTask), as claimed: in every call that is not short-circuited the
\* tool runs are separate, resample-left, resample-right in that order, each
\* at most once, a later one only after the one before exited 0, and an
\* intermediate file is deleted only after both resamples have returned.
C16_ToolOrderAndLateCleanup ==
    /\ []CallsInOrder
    /\ [][TempDeleted => BothResamplesReturned]_vars

\* C16 (SpecTask), amended: the same order, at most once and only after
\* success; an intermediate file is deleted only once no further tool run
\* will be made in the call: after both resamples have returned, or after
\* the tool run that exited nonzero.
C16_ToolOrderAndCleanupAfterLastRun ==
    /\ []CallsInOrder
    /\ [][TempDeleted => (BothResamplesReturned \/ LastRunFailed)]_vars

C16_Witness ==
    /\ task.pc = "returned"
    /\ task.result = Failed
    /\ Len(task.calls) = 2
    /\ Exists(taskStart, temp_left)
    /\ ~Exists(task.disk, temp_left)

\* C17 (SpecTask): when a tool run exits nonzero, the message of the Failed
\* result holds the text the tool wrote on its standard error.
C17_FailedMessageHoldsStderr ==
    (task.pc = "returned" /\ task.result[1] = FALSE) =>
        task.caught.stderr \in MessageTexts(task.result, task.caught)

\* The patterns all of whose substrings occur in the file name.
Matching == {k \in Range(AcqKeys) : \A p \in patterns[k] : p \in file_name}

\* C19 (SpecParse): for every file name at most one of the eight patterns
\* has all its substrings in the name; parse_filename returns that pattern's
\* key, and no key when no pattern matches.
C19_PatternsMutuallyExclusive ==
    parsed # "not_called" =>
        /\ Cardinality(Matching) <= 1
        /\ Matching = {} <=> parsed = None
        /\ parsed # None => Matching = {parsed}

TruncatedOutputAtStart ==
    /\ BothOutputsAtStart
    /\ \E f \in {output_left, output_right} : taskStart[f] = "partial"

\* C23 (SpecTask): a call that starts with both output files present, one
\* of them truncated, returns AlreadyDone without any tool run, and the
\* truncated file is still there, truncated, when it returns.
C23_TruncatedOutputIsSkipped ==
    (task.pc = "returned" /\ TruncatedOutputAtStart) =>
        /\ task.result = AlreadyDone
        /\ Len(task.calls) = 0
        /\ \A f \in {output_left, output_right} :
              taskStart[f] = "partial" => task.disk[f] = "partial"

C23_Witness ==
    /\ task.pc = "returned"
    /\ taskStart[output_left] = "complete"
    /\ taskStart[output_right] = "partial"
    /\ task.disk[output_right] = "partial"
    /\ task.result = AlreadyDone

\* C25 (SpecTask): whenever process_cifti_file has returned, with Success,
\* AlreadyDone or Failed, neither intermediate file exists, whatever was in
\* the directory when the call started.
C25_NoIntermediateAtReturn ==
    task.pc = "returned" =>
        /\ task.result \in {Success, AlreadyDone, Failed}
        /\ ~Exists(task.disk, temp_left)
        /\ ~Exists(task.disk, temp_right)

OneOutputAtStart ==
    Exists(taskStart, output_left) # Exists(taskStart, output_right)

\* C27 (SpecTask): a call that starts with exactly one of the two output
\* files present and returns Failed ends with neither output file present,
\* even when the one it found was complete.
C27_FailedDeletesEarlierOutput ==
    (task.pc = "returned" /\ task.result = Failed /\ OneOutputAtStart) =>
        /\ ~Exists(task.disk, output_left)
        /\ ~Exists(task.disk, output_right)

C27_Witness ==
    /\ task.pc = "returned"
    /\ task.result = Failed
    /\ taskStart[output_right] = "complete"
    /\ ~Exists(taskStart, output_left)
    /\ task.calls = <<<<"separate", "nonzero">>>>
    /\ ~Exists(task.disk, output_right)

\* C26 (Spec): the default pool size, half the core count rounded down, is
\* at least 1 on every machine with at least one core, so that a run that
\* comes to create its pool gets one and does not crash there.
C26_DefaultPoolSizeIsPositive ==
    /\ cpu_count >= 1 => PARALLEL_JOBS >= 1
    /\ runPc \in {"collect", "done", "crashed"} => (pool /\ runPc # "crashed")

\* The subjects of S in ascending order.
Ascending(S) ==
    CHOOSE q \in Orders(S) : \A i, j \in DOMAIN q : i < j => q[i] < q[j]

CountsEqual == {e \in Range(subjects) : Returned(e) /\ worker[e].ret[2] = worker[e].ret[3]}

\* C30 (Spec): the batch summary is a function of the workers' results
\* alone: its successful list is the subjects whose counts are equal, in
\* ascending order, its failed list the other subjects in ascending order,
\* and its counts their numbers, in whatever order the futures completed.
C30_SummaryIndependentOfCompletionOrder ==
    runPc = "done" =>
        /\ LastSummary.successful = Ascending(CountsEqual)
        /\ LastSummary.failed = Ascending(Range(subjects) \ CountsEqual)
        /\ LastSummary.n_success = Cardinality(CountsEqual)
        /\ LastSummary.n_failed = Cardinality(Range(subjects) \ CountsEqual)
        /\ LastSummary.total = Cardinality(Range(subjects))

C30_Witness ==
    /\ runPc = "done"
    /\ Len(successful_subjects) >= 2
    /\ successful_subjects[1] > successful_subjects[2]
    /\ LastSummary.successful[1] < LastSummary.successful[2]

FailedRun(name) == \E i \in DOMAIN task.calls : task.calls[i] = <<name, "nonzero">>

\* C24 (SpecProcessTask): when process_task is through with an input file
\* for which the separate run or a resample run exited nonzero, neither
\* intermediate file exists, no output file is left half-written, and no
\* resample was run if the separate run was the one that failed.
C24_ProcessTaskCleansUpAfterFailure ==
    (task.pc = "returned" /\ NonzeroExit(task)) =>
        /\ \A f \in {temp_left, temp_right} : ~Exists(task.disk, f)
        /\ \A f \in {output_left, output_right} : task.disk[f] # "partial"
        /\ FailedRun("separate") => Len(task.calls) = 1

\* What the files of the output directory must hold after a call that saved
\* the records of md at time `now` without any error.
ExpectedContent(md, formats, now) ==
    [file \in SavedFiles(md, formats) \cup {ValidationFile} |->
        IF file = ValidationFile THEN Validate(md)
        ELSE IF file[2] = "metadata.json"
             THEN [merge_date |-> now,
                   data_shape |-> <<Len(md[file[1]].timeseries),
                                    Len(md[file[1]].timeseries[1])>>]
             ELSE md[file[1]].timeseries]

\* C21 (SpecMerge): when a process_subject call, the first or the second on
\* the same inputs, returns success without a save error, the output
\* directory holds exactly the data and metadata file of each record and
\* the validation file, every data file holds the merged matrix of its
\* record and every metadata file the time of this call: the second call
\* leaves the files of the first, rewritten.
C21_RerunOverwritesSameFiles ==
    (mpc = "returned" /\ mret[1] = TRUE /\ save_errors = {}) =>
        out_content = ExpectedContent(merged_data, save_formats, mruns)

C21_Witness ==
    /\ mpc = "returned"
    /\ mruns = 2
    /\ mret[1] = TRUE
    /\ save_errors = {}
    /\ save_formats = {"numpy", "gifti"}
    /\ Cardinality(DOMAIN merged_data) >= 1
    /\ out_content[<<CHOOSE k \in DOMAIN merged_data : TRUE, "metadata.json">>].merge_date = 2

ParsedKey(n) == parse_filename(gifti_files[n].filename)

\* C28 (SpecMerge): of the files glob lists for a subject, outputs and
\* leftover intermediates, no two that are loaded get the same key, and
\* the entry of a key is the resampled output of that acquisition.
C28_OneLoadedFilePerKey ==
    Loaded =>
        /\ \A m, n \in DOMAIN gifti_files :
              (m # n /\ ~Unreadable(gifti_files[m]) /\ ~Unreadable(gifti_files[n])
                    /\ ParsedKey(m) # None)
                 => ParsedKey(m) # ParsedKey(n)
        /\ \A n \in DOMAIN gifti_files :
              (~IsLeftover(gifti_files[n]) /\ ~Unreadable(gifti_files[n])) =>
                  subject_data[ParsedKey(n)].filename = gifti_files[n].filename

\* C29 (SpecMerge): when the GIFTI save of a record failed in a call, the
\* call still returns success, the metadata file of that record and of
\* every other record is written with the time of this call, and so are the
\* numpy file of every record and the GIFTI file of every other record.
C29_GiftiSaveErrorIsSwallowed ==
    (mpc = "returned" /\ save_errors # {}) =>
        /\ mret[1] = TRUE
        /\ \A k \in DOMAIN merged_data :
              /\ <<k, "metadata.json">> \in out_files
              /\ out_content[<<k, "metadata.json">>].merge_date = mruns
              /\ "numpy" \in save_formats =>
                    /\ <<k, "npy">> \in out_files
                    /\ out_content[<<k, "npy">>] = merged_data[k].timeseries
              /\ k \notin save_errors =>
                    /\ <<k, "func.gii">> \in out_files
                    /\ out_content[<<k, "func.gii">>] = merged_data[k].timeseries

C29_Witness ==
    /\ mpc = "returned"
    /\ mruns = 1
    /\ mret[1] = TRUE
    /\ \E k \in save_errors : <<k, "func.gii">> \notin out_files
    /\ \E k \in DOMAIN merged_data : k \notin save_errors

\* A step that hands a queued subject task to a pool process.
Dispatched ==
    \E e \in Entries : worker[e].pc = "pending" /\ worker'[e].pc # "pending"

\* C22 (SpecInterrupt): once the run has been interrupted with subject tasks still
\* queued, no step dispatches a queued subject task.
C22_NoDispatchAfterInterrupt ==
    [][(runPc \in {"interrupted", "killed"}) => (~Dispatched)]_vars

====
